---- MODULE Spec2Model ----
(***************************************************************************)
(* Model of two applications of the repository:                            *)
(*   - the Parts tracker (src/Parts_link.py): the JSON-backed parts store  *)
(*     and its tab-separated merge-import;                                 *)
(*   - the Tribal Ideas tracker (src/tribal.py): submit / review /         *)
(*     mark-trained handlers over ideas.json and points.json, run by       *)
(*     several sessions that each load, mutate and save a full copy.       *)
(* A Python string is modelled as a sequence of one-character strings, so  *)
(* that strip(), upper() and split() are computed, not assumed.            *)
(***************************************************************************)
EXTENDS Integers, Sequences, FiniteSets, TLC

VARIABLES
    partsFile,      \* parts.json: part number -> [parent, issues, usage]
    ppc,            \* Parts session: position in the script run
    parts_data,     \* Parts session: the in-memory copy loaded at line 36
    lines,          \* Import handler: import_text.strip().split('\n')
    li,             \* Import handler: index of the next line of the for loop
    counts,         \* Import handler: imported / updated / issues_updated
    ideasFile,      \* ideas.json: sequence of idea records
    pointsFile,     \* points.json: identity -> total
    now,            \* the reading datetime.now() returns
    pc,             \* Tribal session: position in the script run
    ideas,          \* Tribal session: the local list `ideas`
    points,         \* Tribal session: the local dict `points`
    mt,             \* mark_trained applied twice: the list and the calls made
    rolesFile,      \* roles.json: identity -> role
    docs,           \* the condition of each document: missing, corrupt or ok
    run,            \* one script run of main(): identity, position, locals
    html,           \* HTML export: a field value and the text written for it
    ptab            \* Parts sessions sharing parts.json: position, loaded copy

partsVars == <<partsFile, ppc, parts_data, lines, li, counts>>
tribalVars == <<ideasFile, pointsFile, now, pc, ideas, points>>
runVars == <<rolesFile, docs, run>>
vars == <<partsFile, ppc, parts_data, lines, li, counts,
          ideasFile, pointsFile, now, pc, ideas, points, mt,
          rolesFile, docs, run, html, ptab>>

(***************************************************************************)
(* Strings                                                                 *)
(***************************************************************************)
TAB == "\t"
NL == "\n"
SP == " "

\* The characters str.strip() removes, among those the model uses.
Whitespace == {SP, TAB, NL}

LowerCase == <<"a","b","c","d","e","f","g","h","i","j","k","l","m",
               "n","o","p","q","r","s","t","u","v","w","x","y","z">>
UpperCase == <<"A","B","C","D","E","F","G","H","I","J","K","L","M",
               "N","O","P","Q","R","S","T","U","V","W","X","Y","Z">>

UpperChar(c) ==
    IF \E k \in 1..Len(LowerCase) : LowerCase[k] = c
    THEN UpperCase[CHOOSE k \in 1..Len(LowerCase) : LowerCase[k] = c]
    ELSE c

\* str.upper()
Upper(s) == [k \in 1..Len(s) |-> UpperChar(s[k])]

\* str.strip(): drop the leading and the trailing whitespace
Strip(s) ==
    LET keep == {k \in 1..Len(s) : s[k] \notin Whitespace}
    IN  IF keep = {} THEN <<>>
        ELSE LET lo == CHOOSE k \in keep : \A j \in keep : k <= j
                 hi == CHOOSE k \in keep : \A j \in keep : j <= k
             IN  SubSeq(s, lo, hi)

\* `c in s`
Contains(s, c) == \E k \in 1..Len(s) : s[k] = c

\* str.split(sep): the fields between the separators, "" included
RECURSIVE Split(_, _)
Split(s, sep) ==
    IF ~Contains(s, sep) THEN <<s>>
    ELSE LET p == CHOOSE k \in 1..Len(s) :
                      s[k] = sep /\ \A j \in 1..(k-1) : s[j] # sep
         IN  <<SubSeq(s, 1, p-1)>> \o Split(SubSeq(s, p+1, Len(s)), sep)

\* All sequences over S of length at most n
RECURSIVE SeqsUpTo(_, _)
SeqsUpTo(S, n) ==
    IF n = 0 THEN {<<>>}
    ELSE LET shorter == SeqsUpTo(S, n-1)
         IN  shorter \cup {Append(t, c) : t \in {u \in shorter : Len(u) = n-1}, c \in S}

(***************************************************************************)
(* Parts tracker: the store and the import handler (src/Parts_link.py)     *)
(***************************************************************************)
NoParts == [k \in {} |-> [parent |-> <<>>, issues |-> <<>>, usage |-> <<>>]]

NoCounts == [imported |-> 0, updated |-> 0, issues_updated |-> 0]

\* d[k] = v, as a Python dict assignment (inserts or replaces)
DictSet(d, k, v) == [x \in DOMAIN d \cup {k} |-> IF x = k THEN v ELSE d[x]]

PartNum_AsTyped(parts) == Strip(parts[1])

\* parts[0].strip().upper()
PartNum(parts) == Upper(Strip(parts[1]))

\* parts[1].strip().upper() if parts[1].strip() else ""
ParentPart(parts) == IF Strip(parts[2]) # <<>> THEN Upper(Strip(parts[2])) ELSE <<>>

KnownIssues_Untrimmed(parts) ==
    IF Len(parts) >= 3 /\ Strip(parts[3]) # <<>> THEN parts[3] ELSE <<>>

\* parts[2].strip() if len(parts) >= 3 and parts[2].strip() else ""
KnownIssues(parts) ==
    IF Len(parts) >= 3 /\ Strip(parts[3]) # <<>> THEN Strip(parts[3]) ELSE <<>>

SetsParent_Always(rec, parent_part) == parent_part # <<>>

\* if parent_part and not parts_data[part_num].get('parent', '')
SetsParent(rec, parent_part) == parent_part # <<>> /\ rec.parent = <<>>

SetsIssues_OnlyBlank(rec, known_issues) == known_issues # <<>> /\ rec.issues = <<>>

\* if known_issues:
SetsIssues(rec, known_issues) == known_issues # <<>>

UpdateCounts_IssuesApart(c, rec, setParent, known_issues) ==
    [imported |-> c.imported,
     updated |-> IF setParent THEN c.updated + 1 ELSE c.updated,
     issues_updated |-> IF known_issues # <<>> THEN c.issues_updated + 1
                        ELSE c.issues_updated]

UpdateCounts_OnChange(c, rec, setParent, known_issues) ==
    LET changedIssues == known_issues # <<>> /\ known_issues # rec.issues
    IN  [imported |-> c.imported,
         updated |-> IF setParent \/ changedIssues THEN c.updated + 1 ELSE c.updated,
         issues_updated |-> IF changedIssues THEN c.issues_updated + 1
                            ELSE c.issues_updated]

\* the counters of the "Update existing part" branch
UpdateCounts(c, rec, setParent, known_issues) ==
    [imported |-> c.imported,
     updated |-> IF setParent \/ known_issues # <<>> THEN c.updated + 1 ELSE c.updated,
     issues_updated |-> IF known_issues # <<>> THEN c.issues_updated + 1
                        ELSE c.issues_updated]

\* the record of the "Add new part" branch
NewPart(parts) ==
    [parent |-> ParentPart(parts), issues |-> KnownIssues(parts), usage |-> <<>>]

\* The body of the loop for a line that is processed: pd is parts_data,
\* c the three counters, parts the fields of the line.
MergeFields(pd, c, parts) ==
    LET part_num == PartNum(parts)
        parent_part == ParentPart(parts)
        known_issues == KnownIssues(parts)
    IN  IF part_num \in DOMAIN pd
        THEN LET rec == pd[part_num]
                 setParent == SetsParent(rec, parent_part)
                 rec1 == IF setParent THEN [rec EXCEPT !.parent = parent_part] ELSE rec
                 rec2 == IF SetsIssues(rec, known_issues)
                         THEN [rec1 EXCEPT !.issues = known_issues] ELSE rec1
             IN  [pd |-> [pd EXCEPT ![part_num] = rec2],
                  c  |-> UpdateCounts(c, rec, setParent, known_issues)]
        ELSE [pd |-> DictSet(pd, part_num, NewPart(parts)),
              c  |-> [c EXCEPT !.imported = @ + 1]]

ImportLineOp_NoTabAdds(pd, c, line) ==
    LET parts == Split(line, TAB)
    IN  MergeFields(pd, c, IF Len(parts) >= 2 THEN parts ELSE parts \o << <<>> >>)

\* One iteration of `for line in lines`
ImportLineOp(pd, c, line) ==
    IF Contains(line, TAB) /\ Len(Split(line, TAB)) >= 2
    THEN MergeFields(pd, c, Split(line, TAB))
    ELSE [pd |-> pd, c |-> c]

(***************************************************************************)
(* Bounds and inputs of the import model                                   *)
(***************************************************************************)
MaxTextLen == 6
MaxInitParts == 1

\* a letter, a blank, the field separator and the line separator
Alphabet == {"a", SP, TAB, NL}

\* "X1\tX0\tcracked" and "X1\tX9\tnew issue" (spec.md, section 8), and a
\* block of two lines with three fields each
ExampleTexts ==
    { <<"X","1",TAB,"X","0",TAB,"c","r","a","c","k","e","d">>,
      <<"X","1",TAB,"X","9",TAB,"n","e","w",SP,"i","s","s","u","e">>,
      <<"a",TAB,"x",TAB,"a",NL,"a",TAB,"a",TAB,SP,"o",SP>> }

Texts == SeqsUpTo(Alphabet, MaxTextLen) \cup ExampleTexts

InitKeys == {<<"A">>, <<"X">>}
InitRecs == [parent : {<<>>, <<"X">>}, issues : {<<>>, <<"a">>}, usage : {<<>>, <<"u">>}]

\* X1 -> {parent: "X0", issues: "old"} (spec.md, section 8)
ExampleStore ==
    [k \in {<<"X","1">>} |-> [parent |-> <<"X","0">>, issues |-> <<"o","l","d">>,
                              usage |-> <<>>]]

InitStores ==
    {ExampleStore} \cup
    UNION {[K -> InitRecs] : K \in {K \in SUBSET InitKeys : Cardinality(K) <= MaxInitParts}}

(***************************************************************************)
(* Parts tracker: one script run that ends in the Import Parts handler     *)
(***************************************************************************)
InitParts ==
    /\ partsFile \in InitStores
    /\ ppc = "start"
    /\ parts_data = NoParts
    /\ lines = <<>>
    /\ li = 1
    /\ counts = NoCounts

\* lines 12-23: {} when parts.json does not exist or does not parse
load_parts == IF docs["parts.json"] = "ok" THEN partsFile ELSE NoParts

PartsDocAfterLoad_NoCreate == [state |-> docs["parts.json"], val |-> partsFile]

\* lines 14-17: a parts.json that does not exist is created, holding {}
PartsDocAfterLoad ==
    IF docs["parts.json"] = "missing" THEN [state |-> "ok", val |-> NoParts]
    ELSE [state |-> docs["parts.json"], val |-> partsFile]

\* line 36: parts_data = load_parts()
LoadParts ==
    /\ ppc = "start"
    /\ parts_data' = load_parts
    /\ partsFile' = PartsDocAfterLoad.val
    /\ docs' = [docs EXCEPT !["parts.json"] = PartsDocAfterLoad.state]
    /\ ppc' = "loaded"
    /\ UNCHANGED <<lines, li, counts>>
    /\ UNCHANGED <<tribalVars, mt, html, ptab, rolesFile, run>>

\* lines 222-227: the button is clicked with import_text in the text area
ImportClick ==
    /\ ppc = "loaded"
    /\ \E import_text \in Texts :
         IF Strip(import_text) # <<>>
         THEN /\ lines' = Split(Strip(import_text), NL)
              /\ li' = 1
              /\ counts' = NoCounts
              /\ ppc' = "import"
         ELSE /\ ppc' = "done"
              /\ UNCHANGED <<lines, li, counts>>
    /\ UNCHANGED <<partsFile, parts_data>>
    /\ UNCHANGED <<tribalVars, mt, html, ptab, runVars>>

ImportLine_Saves ==
    /\ ppc = "import"
    /\ li <= Len(lines)
    /\ LET r == ImportLineOp(parts_data, counts, lines[li])
       IN  /\ parts_data' = r.pd
           /\ counts' = r.c
           /\ partsFile' = r.pd
    /\ li' = li + 1
    /\ UNCHANGED <<ppc, lines>>
    /\ UNCHANGED <<tribalVars, mt, html, ptab, runVars>>

\* lines 229-261: one iteration of the loop
ImportLine ==
    /\ ppc = "import"
    /\ li <= Len(lines)
    /\ LET r == ImportLineOp(parts_data, counts, lines[li])
       IN  /\ parts_data' = r.pd
           /\ counts' = r.c
    /\ li' = li + 1
    /\ UNCHANGED <<partsFile, ppc, lines>>
    /\ UNCHANGED <<tribalVars, mt, html, ptab, runVars>>

\* line 263: save_parts(parts_data), after the loop
ImportSave ==
    /\ ppc = "import"
    /\ li > Len(lines)
    /\ partsFile' = parts_data
    /\ ppc' = "done"
    /\ UNCHANGED <<parts_data, lines, li, counts>>
    /\ UNCHANGED <<tribalVars, mt, html, ptab, runVars>>

NextParts ==
    \/ LoadParts
    \/ ImportClick
    \/ ImportLine
    \/ ImportSave

(***************************************************************************)
(* Properties of the Parts import (SpecImport)                             *)
(***************************************************************************)
\* the step taken is one iteration of the import loop, on lines[li]
LineStep == ppc = "import" /\ li <= Len(lines) /\ li' = li + 1

\* the tab-separated fields of a line, its part number and its third field
Fields(line) == Split(line, TAB)
KeyOf(line) == Upper(Strip(Fields(line)[1]))
HasThird(line) == Len(Fields(line)) >= 3 /\ Strip(Fields(line)[3]) # <<>>

\* the first line of the block has been processed; parts.json still holds
\* the store as it was before the import
AfterFirstLine == ppc = "import" /\ li = 2 /\ Len(lines) >= 1

\* C1: an import line never changes the parent of an existing part whose
\* parent is non-blank; the parent changes only if it was blank and the line
\* gives a non-blank parent, and then to the line's (trimmed, uppercased)
\* parent. The save at the end keeps every non-blank parent of parts.json.
C1_ParentNeverOverwritten ==
    [][/\ LineStep /\ Len(Fields(lines[li])) >= 2 /\ KeyOf(lines[li]) \in DOMAIN parts_data
          => LET k == KeyOf(lines[li])
                 old == parts_data[k].parent
             IN  /\ k \in DOMAIN parts_data'
                 /\ old # <<>> => parts_data'[k].parent = old
                 /\ parts_data'[k].parent # old
                      => /\ old = <<>>
                         /\ Strip(Fields(lines[li])[2]) # <<>>
                         /\ parts_data'[k].parent = Upper(Strip(Fields(lines[li])[2]))
       /\ \A k \in DOMAIN partsFile :
            partsFile[k].parent # <<>>
              => k \in DOMAIN partsFile' /\ partsFile'[k].parent = partsFile[k].parent
      ]_vars

\* a line gave another non-blank parent for a part that had one, and the
\* stored parent is still the old one
C1_Witness ==
    /\ AfterFirstLine
    /\ Len(Fields(lines[1])) >= 2
    /\ KeyOf(lines[1]) \in DOMAIN partsFile
    /\ partsFile[KeyOf(lines[1])].parent # <<>>
    /\ Strip(Fields(lines[1])[2]) # <<>>
    /\ Upper(Strip(Fields(lines[1])[2])) # partsFile[KeyOf(lines[1])].parent
    /\ parts_data[KeyOf(lines[1])].parent = partsFile[KeyOf(lines[1])].parent

\* C2: for a line that addresses an existing part, the stored issues become
\* the trimmed third field when that field is present and non-blank, and
\* stay as they were when it is absent or blank.
C2_IssuesOverwritten ==
    [][LineStep /\ Len(Fields(lines[li])) >= 2 /\ KeyOf(lines[li]) \in DOMAIN parts_data
          => LET k == KeyOf(lines[li])
             IN  /\ k \in DOMAIN parts_data'
                 /\ parts_data'[k].issues =
                       IF HasThird(lines[li]) THEN Strip(Fields(lines[li])[3])
                       ELSE parts_data[k].issues
      ]_vars

\* non-blank stored issues were replaced by other issues from the line
C2_Witness ==
    /\ AfterFirstLine
    /\ Len(Fields(lines[1])) >= 2
    /\ KeyOf(lines[1]) \in DOMAIN partsFile
    /\ HasThird(lines[1])
    /\ partsFile[KeyOf(lines[1])].issues # <<>>
    /\ partsFile[KeyOf(lines[1])].issues # Strip(Fields(lines[1])[3])
    /\ parts_data[KeyOf(lines[1])].issues = Strip(Fields(lines[1])[3])

\* C3: a line with no tab character leaves the store (in memory and on
\* disk) and the three counters as they were.
C3_MalformedLineSkipped ==
    [][LineStep /\ ~Contains(lines[li], TAB)
          => parts_data' = parts_data /\ counts' = counts /\ partsFile' = partsFile
      ]_vars

\* a non-empty line without a tab was passed over, and another line follows
C3_Witness ==
    /\ AfterFirstLine
    /\ lines[1] # <<>>
    /\ ~Contains(lines[1], TAB)
    /\ Len(lines) >= 2
    /\ parts_data = partsFile
    /\ counts = NoCounts

\* the record C4 describes for a new part; issues as the third field (raw)
\* or as the trimmed third field
NewRecord(line, issues) ==
    [parent |-> Upper(Strip(Fields(line)[2])), issues |-> issues, usage |-> <<>>]

\* the example of C4: "X1\tX0\tcracked" into an empty store
C4_Example ==
    LineStep /\ parts_data = NoParts /\ counts = NoCounts
             /\ lines[li] = <<"X","1",TAB,"X","0",TAB,"c","r","a","c","k","e","d">>
      => /\ parts_data' = [k \in {<<"X","1">>} |->
                             [parent |-> <<"X","0">>,
                              issues |-> <<"c","r","a","c","k","e","d">>,
                              usage |-> <<>>]]
         /\ counts' = [imported |-> 1, updated |-> 0, issues_updated |-> 0]

\* C4 as stated: a line for a part that is not in the store inserts exactly
\* one record, with issues = the line's third field if present and
\* non-blank, and adds 1 to the added counter only.
C4_Original ==
    [][/\ LineStep /\ Len(Fields(lines[li])) >= 2 /\ KeyOf(lines[li]) \notin DOMAIN parts_data
          => /\ parts_data' =
                  DictSet(parts_data, KeyOf(lines[li]),
                          NewRecord(lines[li], IF HasThird(lines[li])
                                               THEN Fields(lines[li])[3] ELSE <<>>))
             /\ counts' = [counts EXCEPT !.imported = @ + 1]
       /\ C4_Example
      ]_vars

\* C4 (amended): the same, with issues = the trimmed third field.
C4_NewPartInserted ==
    [][/\ LineStep /\ Len(Fields(lines[li])) >= 2 /\ KeyOf(lines[li]) \notin DOMAIN parts_data
          => /\ parts_data' =
                  DictSet(parts_data, KeyOf(lines[li]),
                          NewRecord(lines[li], IF HasThird(lines[li])
                                               THEN Strip(Fields(lines[li])[3]) ELSE <<>>))
             /\ counts' = [counts EXCEPT !.imported = @ + 1]
       /\ C4_Example
      ]_vars

\* a new part was added from a line whose third field has blanks around it
C4_Witness ==
    /\ AfterFirstLine
    /\ Len(Fields(lines[1])) >= 2
    /\ KeyOf(lines[1]) \notin DOMAIN partsFile
    /\ KeyOf(lines[1]) \in DOMAIN parts_data
    /\ HasThird(lines[1])
    /\ Fields(lines[1])[3] # Strip(Fields(lines[1])[3])
    /\ parts_data[KeyOf(lines[1])].issues = Strip(Fields(lines[1])[3])
    /\ counts = [imported |-> 1, updated |-> 0, issues_updated |-> 0]

\* the example of C5: "X1\tX9\tnew issue" over X1 -> {parent X0, issues old}
C5_Example ==
    LineStep /\ parts_data = ExampleStore /\ counts = NoCounts
             /\ lines[li] = <<"X","1",TAB,"X","9",TAB,"n","e","w",SP,"i","s","s","u","e">>
      => /\ parts_data' = [k \in {<<"X","1">>} |->
                             [parent |-> <<"X","0">>,
                              issues |-> <<"n","e","w",SP,"i","s","s","u","e">>,
                              usage |-> <<>>]]
         /\ counts' = [imported |-> 0, updated |-> 1, issues_updated |-> 1]

Plus(b) == IF b THEN 1 ELSE 0

\* C5 as stated: for a line that addresses an existing part, updated grows
\* by 1 iff the line changed the parent or the issues, and issues-updated
\* grows by 1 iff the line changed the issues.
C5_Original ==
    [][/\ LineStep /\ Len(Fields(lines[li])) >= 2 /\ KeyOf(lines[li]) \in DOMAIN parts_data
          => LET k == KeyOf(lines[li])
                 parentChanged == parts_data'[k].parent # parts_data[k].parent
                 issuesChanged == parts_data'[k].issues # parts_data[k].issues
             IN  /\ counts'.updated = counts.updated + Plus(parentChanged \/ issuesChanged)
                 /\ counts'.issues_updated = counts.issues_updated + Plus(issuesChanged)
                 /\ counts'.imported = counts.imported
       /\ C5_Example
      ]_vars

\* C5 (amended): updated grows by 1 iff the line set the parent or gave a
\* non-blank third field, and issues-updated grows by 1 iff the line gave a
\* non-blank third field, also when that field equals the stored issues.
C5_CountersOnUpdate ==
    [][/\ LineStep /\ Len(Fields(lines[li])) >= 2 /\ KeyOf(lines[li]) \in DOMAIN parts_data
          => LET k == KeyOf(lines[li])
                 parentChanged == parts_data'[k].parent # parts_data[k].parent
             IN  /\ counts'.updated =
                       counts.updated + Plus(parentChanged \/ HasThird(lines[li]))
                 /\ counts'.issues_updated =
                       counts.issues_updated + Plus(HasThird(lines[li]))
                 /\ counts'.imported = counts.imported
       /\ C5_Example
      ]_vars

\* a line gave the issues the part already had, and both counters grew
C5_Witness ==
    /\ AfterFirstLine
    /\ Len(Fields(lines[1])) >= 2
    /\ KeyOf(lines[1]) \in DOMAIN partsFile
    /\ HasThird(lines[1])
    /\ Strip(Fields(lines[1])[3]) = partsFile[KeyOf(lines[1])].issues
    /\ parts_data = partsFile
    /\ counts = [imported |-> 0, updated |-> 1, issues_updated |-> 1]

(***************************************************************************)
(* Tribal Ideas: identities, roles and records (src/tribal.py)             *)
(***************************************************************************)
MaxIdeas == 2
MaxAwards == 2
MaxTime == 2

Times == 1..MaxTime

\* roles.json as provisioned: the default table of initialize_json_files
\* with an administrator added
RolesTable ==
    [u \in {"michael", "alice", "bob", "carol"} |->
        CASE u = "michael" -> "submitter"
          [] u = "alice" -> "reviewer"
          [] u = "bob" -> "trainer"
          [] u = "carol" -> "admin"]

\* The condition of a document on disk
Missing == "missing"
Corrupt == "corrupt"
Ok == "ok"
DocNames == {"parts.json", "ideas.json", "points.json", "roles.json"}
AllOk == [n \in DocNames |-> Ok]

NoRoles == [u \in {} |-> "None"]

\* json.load(f) of a document that parses: a list for ideas.json, a dict
\* for points.json and roles.json
Parsed(filename) ==
    CASE filename = "ideas.json" -> [kind |-> "list", val |-> ideasFile]
      [] filename = "points.json" -> [kind |-> "dict", val |-> pointsFile]
      [] filename = "roles.json" -> [kind |-> "dict", val |-> rolesFile]

\* lines 32-37: the parsed document, or on any exception
\* `{} if filename == 'points.json' else []`
load_json(filename) ==
    IF docs[filename] = Ok THEN Parsed(filename)
    ELSE IF filename = "points.json" THEN [kind |-> "dict", val |-> <<>>]
         ELSE [kind |-> "list", val |-> <<>>]

\* the exception `roles.get` raises when roles is a list
AttributeError == "AttributeError"

\* lines 46-48: roles = load_json('roles.json'); roles.get(username, None)
get_user_role(username) ==
    LET roles == load_json("roles.json")
    IN  IF roles.kind # "dict" THEN AttributeError
        ELSE IF username \in DOMAIN roles.val THEN roles.val[username] ELSE "None"

\* getpass.getuser().lower() of the process that serves session s: every
\* browser session of one server process has that process's identity
SessionUsers == <<"carol", "carol", "alice">>
Sessions == DOMAIN SessionUsers
get_current_user(s) == SessionUsers[s]

\* two browser sessions served by carol's process
Tabs == {1, 2}

\* main(): the pages the role of session s runs
RunsPage(s, page) ==
    LET user_role == get_user_role(get_current_user(s))
    IN  user_role = "admin" \/ user_role = page

Absent == "absent"
NoIdeas == <<>>
NoPoints == [u \in {} |-> 0]

\* points.get(current_user, 0)
PointsGet(p, u) == IF u \in DOMAIN p THEN p[u] ELSE 0

AwardedPoints_OnlyAccurate(p, u, accurate) ==
    DictSet(p, u, PointsGet(p, u) + (IF accurate THEN 5 ELSE 0))

AwardedPoints_Penalty(p, u, accurate) ==
    DictSet(p, u, PointsGet(p, u) + (IF accurate THEN 5 ELSE 0 - 5))

AwardedPoints_Ten(p, u, accurate) == DictSet(p, u, PointsGet(p, u) + 10)

\* points[current_user] = points.get(current_user, 0) + 5
AwardedPoints(p, u, accurate) == DictSet(p, u, PointsGet(p, u) + 5)

\* any(review['reviewer'] == current_user for review in idea['reviews'])
user_reviewed(idea, u) ==
    \E k \in 1..Len(idea.reviews) : idea.reviews[k].reviewer = u

ReviewOffered_Always(idea, u) == TRUE

\* `if not user_reviewed:` the two buttons are rendered
ReviewOffered(idea, u) == ~user_reviewed(idea, u)

AddReview_MarksTrained(ids, k, u, accurate, t) ==
    [ids EXCEPT ![k].reviews =
                    Append(@, [reviewer |-> u, accurate |-> accurate, reviewed_at |-> t]),
                ![k].trained = TRUE]

AddReview_ResetsTrained(ids, k, u, accurate, t) ==
    [ids EXCEPT ![k].reviews =
                    Append(@, [reviewer |-> u, accurate |-> accurate, reviewed_at |-> t]),
                ![k].trained = FALSE]

\* idea['reviews'].append({...}) on the idea at position k of the list
AddReview(ids, k, u, accurate, t) ==
    [ids EXCEPT ![k].reviews =
        Append(@, [reviewer |-> u, accurate |-> accurate, reviewed_at |-> t])]

MarkTrained_KeepFirst(ids, id, u, t) ==
    IF \E i \in 1..Len(ids) : ids[i].id = id
    THEN LET i == CHOOSE i \in 1..Len(ids) :
                      ids[i].id = id /\ \A j \in 1..(i-1) : ids[j].id # id
         IN  IF ids[i].trained THEN ids
             ELSE [ids EXCEPT ![i].trained = TRUE, ![i].trained_by = u,
                              ![i].trained_at = t]
    ELSE ids

MarkTrained_DropsReviews(ids, id, u, t) ==
    IF \E i \in 1..Len(ids) : ids[i].id = id
    THEN LET i == CHOOSE i \in 1..Len(ids) :
                      ids[i].id = id /\ \A j \in 1..(i-1) : ids[j].id # id
         IN  [ids EXCEPT ![i].trained = TRUE, ![i].trained_by = u, ![i].trained_at = t,
                         ![i].reviews = <<>>]
    ELSE ids

\* lines 210-215: the first idea with this id is stamped
MarkTrained(ids, id, u, t) ==
    IF \E i \in 1..Len(ids) : ids[i].id = id
    THEN LET i == CHOOSE i \in 1..Len(ids) :
                      ids[i].id = id /\ \A j \in 1..(i-1) : ids[j].id # id
         IN  [ids EXCEPT ![i].trained = TRUE, ![i].trained_by = u, ![i].trained_at = t]
    ELSE ids

\* The submit form: the text, the link, the selected tag, the custom tag
CustomTag == <<"C","u","s","t","o","m",".",".",".">>
FormTexts == {<<SP>>, <<"t">>}
FormLinks == {<<>>}
FormSelectedTags == {<<"U","X">>, CustomTag}
FormCustomTags == {<<SP>>}
Forms == [idea_text : FormTexts, link : FormLinks,
          selected_tag : FormSelectedTags, custom : FormCustomTags]

\* lines 62-65
FormTag(f) == IF f.selected_tag = CustomTag THEN f.custom ELSE f.selected_tag

FormValid_NoStrip(f) ==
    /\ f.idea_text # <<>>
    /\ ~(f.selected_tag = CustomTag /\ FormTag(f) = <<>>)
    /\ FormTag(f) # <<>>

\* lines 70-77: the submission passes validation
FormValid(f) ==
    /\ Strip(f.idea_text) # <<>>
    /\ ~(f.selected_tag = CustomTag /\ Strip(FormTag(f)) = <<>>)
    /\ FormTag(f) # <<>>

NewIdea_IdIsOne(ids, f, u, t) ==
    [id |-> 1,
     text |-> Strip(f.idea_text),
     link |-> IF Strip(f.link) # <<>> THEN Strip(f.link) ELSE <<"N","o","n","e">>,
     tag |-> Strip(FormTag(f)),
     submitter |-> u,
     submitted_at |-> t,
     reviews |-> <<>>,
     trained |-> FALSE,
     trained_by |-> Absent,
     trained_at |-> Absent]

NewIdea_IdIsLen(ids, f, u, t) ==
    [id |-> Len(ids),
     text |-> Strip(f.idea_text),
     link |-> IF Strip(f.link) # <<>> THEN Strip(f.link) ELSE <<"N","o","n","e">>,
     tag |-> Strip(FormTag(f)),
     submitter |-> u,
     submitted_at |-> t,
     reviews |-> <<>>,
     trained |-> FALSE,
     trained_by |-> Absent,
     trained_at |-> Absent]

\* lines 80-89
NewIdea(ids, f, u, t) ==
    [id |-> Len(ids) + 1,
     text |-> Strip(f.idea_text),
     link |-> IF Strip(f.link) # <<>> THEN Strip(f.link) ELSE <<"N","o","n","e">>,
     tag |-> Strip(FormTag(f)),
     submitter |-> u,
     submitted_at |-> t,
     reviews |-> <<>>,
     trained |-> FALSE,
     trained_by |-> Absent,
     trained_at |-> Absent]

(***************************************************************************)
(* Tribal Ideas: the handlers, one session's script run at a time          *)
(***************************************************************************)
InitTribal ==
    /\ ideasFile = NoIdeas
    /\ pointsFile = NoPoints
    /\ now = 1
    /\ pc = [s \in Sessions |-> "idle"]
    /\ ideas = [s \in Sessions |-> NoIdeas]
    /\ points = [s \in Sessions |-> NoPoints]

\* the script run ends: st.rerun(), or the end of main()
EndRun(s) ==
    /\ pc' = [pc EXCEPT ![s] = "idle"]
    /\ ideas' = [ideas EXCEPT ![s] = NoIdeas]
    /\ points' = [points EXCEPT ![s] = NoPoints]

\* lines 69-77, 94-95: the form is submitted and fails validation
SubmitReject(s) ==
    /\ pc[s] = "idle"
    /\ RunsPage(s, "submitter")
    /\ \E f \in Forms : ~FormValid(f)
    /\ UNCHANGED vars

\* lines 69-79: a valid form is submitted; ideas = load_json('ideas.json')
SubmitLoad(s) ==
    /\ pc[s] = "idle"
    /\ RunsPage(s, "submitter")
    /\ \E f \in Forms : FormValid(f)
    /\ Len(ideasFile) < MaxIdeas
    /\ pc' = [pc EXCEPT ![s] = "submit"]
    /\ ideas' = [ideas EXCEPT ![s] = ideasFile]
    /\ UNCHANGED <<ideasFile, pointsFile, now, points>>
    /\ UNCHANGED <<partsVars, mt, html, ptab, runVars>>

\* lines 80-93: the new idea is appended and the list saved
SubmitSave(s) ==
    /\ pc[s] = "submit"
    /\ \E f \in {g \in Forms : FormValid(g)} :
         ideasFile' = Append(ideas[s], NewIdea(ideas[s], f, get_current_user(s), now))
    /\ EndRun(s)
    /\ UNCHANGED <<pointsFile, now>>
    /\ UNCHANGED <<partsVars, mt, html, ptab, runVars>>

\* line 100: ideas = load_json('ideas.json')
ReviewLoadIdeas(s) ==
    /\ pc[s] = "idle"
    /\ RunsPage(s, "reviewer")
    /\ pc' = [pc EXCEPT ![s] = "review_ideas"]
    /\ ideas' = [ideas EXCEPT ![s] = ideasFile]
    /\ UNCHANGED <<ideasFile, pointsFile, now, points>>
    /\ UNCHANGED <<partsVars, mt, html, ptab, runVars>>

\* line 101: points = load_json('points.json')
ReviewLoadPoints(s) ==
    /\ pc[s] = "review_ideas"
    /\ pc' = [pc EXCEPT ![s] = "review"]
    /\ points' = [points EXCEPT ![s] = pointsFile]
    /\ UNCHANGED <<ideasFile, pointsFile, now, ideas>>
    /\ UNCHANGED <<partsVars, mt, html, ptab, runVars>>

\* lines 139-154 (Accurate) and 159-169 (Not Accurate): the review is
\* appended, the award added and ideas.json saved
ReviewClick(s) ==
    /\ pc[s] = "review"
    /\ \E k \in 1..Len(ideas[s]), accurate \in BOOLEAN :
         LET u == get_current_user(s)
         IN  /\ ReviewOffered(ideas[s][k], u)
             /\ PointsGet(points[s], u) + 5 <= 5 * MaxAwards
             /\ ideas' = [ideas EXCEPT ![s] = AddReview(ideas[s], k, u, accurate, now)]
             /\ points' = [points EXCEPT ![s] = AwardedPoints(points[s], u, accurate)]
             /\ ideasFile' = AddReview(ideas[s], k, u, accurate, now)
    /\ pc' = [pc EXCEPT ![s] = "save_points"]
    /\ UNCHANGED <<pointsFile, now>>
    /\ UNCHANGED <<partsVars, mt, html, ptab, runVars>>

\* lines 155-156 and 170-171: save_json('points.json', points); st.rerun()
ReviewSavePoints(s) ==
    /\ pc[s] = "save_points"
    /\ pointsFile' = points[s]
    /\ EndRun(s)
    /\ UNCHANGED <<ideasFile, now>>
    /\ UNCHANGED <<partsVars, mt, html, ptab, runVars>>

\* line 178: ideas = load_json('ideas.json')
TrainLoad(s) ==
    /\ pc[s] = "idle"
    /\ RunsPage(s, "trainer")
    /\ pc' = [pc EXCEPT ![s] = "train"]
    /\ ideas' = [ideas EXCEPT ![s] = ideasFile]
    /\ UNCHANGED <<ideasFile, pointsFile, now, points>>
    /\ UNCHANGED <<partsVars, mt, html, ptab, runVars>>

TrainOffered_OnlyReviewed(idea) == ~idea.trained /\ idea.reviews # <<>>

\* line 182: untrained_ideas, the ideas the Mark Trained button is rendered for
TrainOffered(idea) == ~idea.trained

\* lines 190-217: Mark Trained is clicked on the idea at position k
TrainClickOn(s, k) ==
    /\ pc[s] = "train"
    /\ k \in 1..Len(ideas[s])
    /\ TrainOffered(ideas[s][k])
    /\ ideasFile' = MarkTrained(ideas[s], ideas[s][k].id, get_current_user(s), now)
    /\ EndRun(s)
    /\ UNCHANGED <<pointsFile, now>>
    /\ UNCHANGED <<partsVars, mt, html, ptab, runVars>>

\* lines 182-217: Mark Trained is clicked on an idea of untrained_ideas
TrainClick(s) == \E k \in 1..MaxIdeas : TrainClickOn(s, k)

\* the page is rendered and no button of it was clicked in this run
NoClick(s) ==
    /\ pc[s] \in {"review", "train"}
    /\ EndRun(s)
    /\ UNCHANGED <<ideasFile, pointsFile, now>>
    /\ UNCHANGED <<partsVars, mt, html, ptab, runVars>>

NextTribal ==
    \E s \in Tabs :
        \/ SubmitReject(s)
        \/ SubmitLoad(s)
        \/ SubmitSave(s)
        \/ ReviewLoadIdeas(s)
        \/ ReviewLoadPoints(s)
        \/ ReviewClick(s)
        \/ ReviewSavePoints(s)
        \/ TrainLoad(s)
        \/ TrainClick(s)
        \/ NoClick(s)

(***************************************************************************)
(* Properties of the Tribal Ideas workflow (Spec)                          *)
(***************************************************************************)
\* the step taken is session s going from position a to position b
Moves(s, a, b) == pc[s] = a /\ pc'[s] = b

\* C6: in the persisted ideas collection no idea's reviews list holds two
\* entries with the same reviewer.
C6_OneReviewPerReviewer ==
    \A i \in DOMAIN ideasFile :
        \A j, k \in DOMAIN ideasFile[i].reviews :
            j # k => ideasFile[i].reviews[j].reviewer # ideasFile[i].reviews[k].reviewer

\* two sessions of one identity both loaded idea 1 without a review of
\* theirs and both clicked a review button for it (one Accurate, one Not
\* Accurate); ideas.json holds one review of that identity
C6_Witness ==
    /\ pc[1] = "save_points" /\ pc[2] = "save_points"
    /\ get_current_user(1) = get_current_user(2)
    /\ Len(ideas[1]) >= 1 /\ Len(ideas[2]) >= 1 /\ Len(ideasFile) >= 1
    /\ Len(ideas[1][1].reviews) = 1 /\ Len(ideas[2][1].reviews) = 1
    /\ ideas[1][1].reviews[1].accurate # ideas[2][1].reviews[1].accurate
    /\ Len(ideasFile[1].reviews) = 1
    /\ ideasFile[1].reviews[1].reviewer = get_current_user(1)

\* C7: a click on either review button adds exactly 5 to the acting
\* reviewer's entry of the ledger the handler loaded (a missing entry
\* counting as 0), and the handler then saves that ledger.
C7_ReviewAwardsFive ==
    [][\A s \in Tabs :
          /\ Moves(s, "review", "save_points")
               => /\ get_current_user(s) \in DOMAIN points'[s]
                  /\ points'[s][get_current_user(s)] =
                        PointsGet(points[s], get_current_user(s)) + 5
          /\ Moves(s, "save_points", "idle")
               => /\ get_current_user(s) \in DOMAIN pointsFile'
                  /\ pointsFile'[get_current_user(s)] = points[s][get_current_user(s)]
      ]_vars

\* a Not Accurate click by a reviewer who had 5 points: the ledger to be
\* saved holds 10
C7_Witness ==
    \E s \in Tabs :
        /\ pc[s] = "save_points"
        /\ points[s][get_current_user(s)] = 10
        /\ get_current_user(s) \in DOMAIN pointsFile
        /\ pointsFile[get_current_user(s)] = 5
        /\ \E k \in DOMAIN ideas[s] :
             /\ ideas[s][k].reviews # <<>>
             /\ ideas[s][k].reviews[Len(ideas[s][k].reviews)].reviewer = get_current_user(s)
             /\ ~ideas[s][k].reviews[Len(ideas[s][k].reviews)].accurate

\* C8 as stated: no step lowers the persisted total of an identity or
\* removes an identity from the persisted ledger.
C8_Original ==
    [][\A u \in DOMAIN pointsFile :
          u \in DOMAIN pointsFile' /\ pointsFile'[u] >= pointsFile[u]
      ]_vars

\* C8 (amended): points.json changes only by the save of a review handler;
\* the ledger that handler saves is the one it loaded with no identity
\* removed and no total lowered, so the persisted totals do not decrease
\* when the persisted ledger is still the one the handler loaded.
C8_HandlerNeverLowersLedger ==
    [][/\ pointsFile' # pointsFile
            => \E s \in Tabs : Moves(s, "save_points", "idle") /\ pointsFile' = points[s]
       /\ \A s \in Tabs :
            /\ Moves(s, "review_ideas", "review") => points'[s] = pointsFile
            /\ Moves(s, "review", "save_points")
                 => \A u \in DOMAIN points[s] :
                       u \in DOMAIN points'[s] /\ points'[s][u] >= points[s][u]
            /\ Moves(s, "save_points", "idle")
                 /\ points[s] = DictSet(pointsFile, get_current_user(s),
                                        PointsGet(pointsFile, get_current_user(s)) + 5)
                 => \A u \in DOMAIN pointsFile :
                       u \in DOMAIN pointsFile' /\ pointsFile'[u] >= pointsFile[u]
      ]_vars

\* a reviewer's second review was saved on top of the first: 10 points
C8_Witness ==
    /\ \A s \in Tabs : pc[s] = "idle"
    /\ "carol" \in DOMAIN pointsFile
    /\ pointsFile["carol"] = 10
    /\ \A i \in DOMAIN ideasFile : user_reviewed(ideasFile[i], "carol")
    /\ Len(ideasFile) = 2

\* the ideas that are trained in list a are in list b, trained
KeepsTrained(a, b) ==
    \A i \in DOMAIN a : a[i].trained => i \in DOMAIN b /\ b[i].trained

\* C9 as stated: no step takes a persisted idea from trained back to
\* untrained (or out of the collection).
C9_Original == [][KeepsTrained(ideasFile, ideasFile')]_vars

\* C9 (amended): every save of ideas.json keeps trained = true for each idea
\* that is trained in the copy the saving handler loaded, so a trained idea
\* stays trained across every save by a handler whose loaded copy is the
\* persisted one.
C9_HandlerKeepsTrained ==
    [][\A s \in Tabs :
          pc[s] \in {"submit", "review", "train"} /\ pc'[s] # pc[s] /\ ideasFile' # ideasFile
            => /\ KeepsTrained(ideas[s], ideasFile')
               /\ ideas[s] = ideasFile => KeepsTrained(ideasFile, ideasFile')
      ]_vars

\* a review handler loaded a trained idea, appended its review and saved:
\* the idea is still trained in ideas.json
C9_Witness ==
    \E s \in Tabs :
        /\ pc[s] = "save_points"
        /\ ideasFile = ideas[s]
        /\ \E i \in DOMAIN ideasFile :
             /\ ideasFile[i].trained
             /\ ideasFile[i].reviews # <<>>
             /\ \A t \in Tabs \ {s} : pc[t] = "idle"

\* C11: training is enabled for every untrained idea whatever its review
\* count: on the trainer page the Mark Trained action is enabled for every
\* idea of the loaded list with trained = false, one without reviews
\* included, and every save of the trainer page writes the loaded list with
\* one idea that was untrained now trained and stamped.
C11_TrainingAlwaysEnabled ==
    /\ [](\A s \in Tabs :
            pc[s] = "train"
              => \A k \in 1..Len(ideas[s]) :
                    ~ideas[s][k].trained => ENABLED TrainClickOn(s, k))
    /\ [][\A s \in Tabs :
            Moves(s, "train", "idle") /\ ideasFile' # ideasFile
              => \E k \in 1..Len(ideas[s]) :
                    /\ ~ideas[s][k].trained
                    /\ Len(ideasFile') = Len(ideas[s])
                    /\ ideasFile'[k].trained
                    /\ ideasFile'[k].trained_by = get_current_user(s)
                    /\ ideasFile'[k].reviews = ideas[s][k].reviews
                    /\ \A j \in 1..Len(ideas[s]) : j # k => ideasFile'[j] = ideas[s][j]
         ]_vars

\* an idea without any review was marked trained
C11_Witness ==
    /\ \A s \in Tabs : pc[s] = "idle"
    /\ \E i \in DOMAIN ideasFile :
         /\ ideasFile[i].trained
         /\ ideasFile[i].reviews = <<>>
         /\ ideasFile[i].trained_by = "carol"

\* the largest id among the ideas of a list, 0 for the empty list
MaxId(ids) ==
    IF ids = <<>> THEN 0
    ELSE CHOOSE m \in {ids[i].id : i \in DOMAIN ids} : \A i \in DOMAIN ids : ids[i].id <= m

\* C13: a successful submit saves the list the handler loaded with exactly
\* one idea appended at its end, whose id is the largest id of that list
\* plus 1 (1 for the empty list), whose reviews are empty and whose trained
\* is false; every idea the list held is saved unchanged, at its position.
C13_SubmitAppendsNextId ==
    [][\A s \in Tabs :
          Moves(s, "submit", "idle")
            => /\ Len(ideasFile') = Len(ideas[s]) + 1
               /\ \A i \in 1..Len(ideas[s]) : ideasFile'[i] = ideas[s][i]
               /\ ideasFile'[Len(ideasFile')].id = MaxId(ideas[s]) + 1
               /\ ideasFile'[Len(ideasFile')].reviews = <<>>
               /\ ideasFile'[Len(ideasFile')].trained = FALSE
               /\ ideasFile'[Len(ideasFile')].submitter = get_current_user(s)
               /\ ideas[s] = ideasFile
                    => SubSeq(ideasFile', 1, Len(ideasFile)) = ideasFile
      ]_vars

\* a second idea was submitted after the first had been reviewed: it is
\* stored behind the first, with id 2, no review and trained = false
C13_Witness ==
    /\ \A s \in Tabs : pc[s] = "idle"
    /\ Len(ideasFile) = 2
    /\ ideasFile[1].id = 1 /\ ideasFile[1].reviews # <<>>
    /\ ideasFile[2].id = 2 /\ ideasFile[2].reviews = <<>> /\ ~ideasFile[2].trained

(***************************************************************************)
(* mark_trained applied twice to one list (lines 210-215)                  *)
(***************************************************************************)
MaxMarkIdeas == 2
Trainers == {"bob", "carol"}

SampleReviews ==
    {<<>>, <<[reviewer |-> "alice", accurate |-> TRUE, reviewed_at |-> 1]>>}

SampleIdea(id, rv, by) ==
    [id |-> id, text |-> <<"t">>, link |-> <<"N","o","n","e">>, tag |-> <<"U","X">>,
     submitter |-> "michael", submitted_at |-> 1, reviews |-> rv,
     trained |-> by # Absent, trained_by |-> by,
     trained_at |-> IF by = Absent THEN Absent ELSE 1]

SampleLists ==
    UNION {[1..n -> SampleReviews \X {Absent, "bob"}] : n \in 0..MaxMarkIdeas}

SampleIdeas(l) == [i \in 1..Len(l) |-> SampleIdea(i, l[i][1], l[i][2])]

InitMark ==
    \E l \in SampleLists :
        mt = [ideas |-> SampleIdeas(l), before |-> SampleIdeas(l),
              once |-> SampleIdeas(l), calls |-> <<>>]

InitMarkIdle ==
    mt = [ideas |-> NoIdeas, before |-> NoIdeas, once |-> NoIdeas, calls |-> <<>>]

\* datetime.now() moves between two calls
Tick ==
    /\ \E t \in Times : t # now /\ now' = t
    /\ UNCHANGED <<partsVars, ideasFile, pointsFile, pc, ideas, points, mt, html, ptab, runVars>>

\* mark_trained(id, trainer) on the list, at most twice
MarkCall ==
    /\ Len(mt.calls) < 2
    /\ \E id \in 1..(MaxMarkIdeas + 1), u \in Trainers :
         mt' = [ideas |-> MarkTrained(mt.ideas, id, u, now),
                before |-> mt.before,
                once |-> IF mt.calls = <<>> THEN MarkTrained(mt.ideas, id, u, now)
                         ELSE mt.once,
                calls |-> Append(mt.calls, [id |-> id, by |-> u, at |-> now])]
    /\ UNCHANGED <<partsVars, tribalVars, runVars, html, ptab>>

NextMark ==
    \/ Tick
    \/ MarkCall

(***************************************************************************)
(* Properties of mark_trained applied twice (SpecMark)                     *)
(***************************************************************************)
\* both calls were made, for the same idea of the list
MarkedTwice ==
    /\ Len(mt.calls) = 2
    /\ mt.calls[1].id = mt.calls[2].id
    /\ mt.calls[1].id \in DOMAIN mt.ideas

\* C10: after mark_trained(idea, t1) and mark_trained(idea, t2) the idea is
\* trained, stamped with t2 and the second call's time, and every other
\* field, and every other idea, is as after the first call alone.
C10_MarkTrainedTwice ==
    MarkedTwice =>
        LET i == mt.calls[1].id
        IN  /\ DOMAIN mt.ideas = DOMAIN mt.once
            /\ mt.ideas[i].trained
            /\ mt.ideas[i].trained_by = mt.calls[2].by
            /\ mt.ideas[i].trained_at = mt.calls[2].at
            /\ mt.once[i].trained
            /\ mt.once[i].trained_by = mt.calls[1].by
            /\ mt.once[i].trained_at = mt.calls[1].at
            /\ [mt.ideas[i] EXCEPT !.trained_by = Absent, !.trained_at = Absent]
                 = [mt.once[i] EXCEPT !.trained_by = Absent, !.trained_at = Absent]
            /\ \A j \in DOMAIN mt.ideas : j # i => mt.ideas[j] = mt.once[j]

\* an untrained, reviewed idea marked by two different trainers at two
\* different times
C10_Witness ==
    /\ MarkedTwice
    /\ mt.calls[1].by # mt.calls[2].by
    /\ mt.calls[1].at # mt.calls[2].at
    /\ ~mt.before[mt.calls[1].id].trained
    /\ mt.before[mt.calls[1].id].reviews # <<>>
    /\ Len(mt.ideas) = 2

(***************************************************************************)
(* Tribal Ideas: one script run of main() after another, by one identity,  *)
(* over documents in any condition (src/tribal.py, lines 313-375)          *)
(***************************************************************************)
\* lines 14-18: default_roles
DefaultRoles ==
    [u \in {"michael", "alice", "bob"} |->
        CASE u = "michael" -> "submitter"
          [] u = "alice" -> "reviewer"
          [] u = "bob" -> "trainer"]

\* roles.json as provisioned for the runs: RolesTable and an identity whose
\* role is none of the four
RunRoles == DictSet(RolesTable, "eve", "guest")

\* the identity of the server process: one of each role, one with a role
\* outside the four (eve) and one that no table holds (dave)
RunUsers == {"michael", "alice", "bob", "carol", "eve", "dave"}

TribalDocs == {"roles.json", "ideas.json", "points.json"}

\* the messages of st.error, st.success and st.info
AccessDenied == "Access denied. User not found in roles.json"
UnknownRole == "Unknown role. Please contact an administrator."
TextError == "Please enter an idea text."
CustomTagError == "Please enter a custom tag."
SelectTagError == "Please select a tag."
SubmitSuccess == "Idea submitted successfully!"
NoIdeasFound == "No ideas found."
AllTrained == "All ideas have been trained!"
NoPointsYet == "No points recorded yet."
ReportGenerated == "Report generated"

\* the forms a run may be submitted with; the custom tag field exists only
\* when Custom... is selected
RunForms ==
    {f \in [idea_text : {<<>>, <<SP>>, <<"t">>}, link : {<<>>},
            selected_tag : FormSelectedTags, custom : {<<>>, <<SP>>, <<"c">>}] :
        f.selected_tag # CustomTag => f.custom = <<>>}

NoForm == [idea_text |-> <<>>, link |-> <<>>, selected_tag |-> <<"U","X">>, custom |-> <<>>]

\* the widget event that triggers a script run: none (a page load), the
\* form submit button, a review button or the Mark Trained button of the
\* idea at position k, or the Generate HTML Report button
Event(type, f, k, accurate) == [type |-> type, form |-> f, k |-> k, accurate |-> accurate]

RunEvents ==
    {Event("none", NoForm, 0, FALSE), Event("report", NoForm, 0, FALSE)}
    \cup {Event("submit", f, 0, FALSE) : f \in RunForms}
    \cup {Event("review", NoForm, k, a) : k \in 1..MaxIdeas, a \in BOOLEAN}
    \cup {Event("train", NoForm, k, FALSE) : k \in 1..MaxIdeas}

\* the locals of a script run that has not started
IdleRun(u) ==
    [user |-> u, pc |-> "idle", event |-> Event("none", NoForm, 0, FALSE),
     created |-> {}, loaded |-> <<>>, role |-> "unset", pages |-> <<>>,
     msgs |-> {}, did |-> "none"]

CreatesDocument_Always(n) == TRUE

\* lines 13, 23, 28: `if not os.path.exists(...)`
CreatesDocument(n) == docs[n] = Missing

\* lines 313-315 and 11-30: a widget event starts a script run, and
\* initialize_json_files creates the documents that do not exist
Initialize ==
    /\ run.pc \in {"idle", "done", "crashed"}
    /\ \E e \in RunEvents :
         /\ e.type = "submit" => Len(ideasFile) < MaxIdeas
         /\ e.type = "review" => PointsGet(pointsFile, run.user) + 5 <= 5 * MaxAwards
         /\ run' = [IdleRun(run.user) EXCEPT
                       !.pc = "lookup", !.event = e,
                       !.created = {n \in TribalDocs : CreatesDocument(n)}]
    /\ rolesFile' = IF CreatesDocument("roles.json") THEN DefaultRoles ELSE rolesFile
    /\ ideasFile' = IF CreatesDocument("ideas.json") THEN NoIdeas ELSE ideasFile
    /\ pointsFile' = IF CreatesDocument("points.json") THEN NoPoints ELSE pointsFile
    /\ docs' = [n \in DocNames |->
                  IF n \in TribalDocs /\ CreatesDocument(n) THEN Ok ELSE docs[n]]
    /\ UNCHANGED <<now, pc, ideas, points>>
    /\ UNCHANGED <<partsVars, mt, html, ptab>>

\* lines 318-319: user_role = get_user_role(current_user)
RoleLookup ==
    /\ run.pc = "lookup"
    /\ LET user_role == get_user_role(run.user)
       IN  run' = [run EXCEPT
                     !.loaded = DictSet(@, "roles.json", load_json("roles.json")),
                     !.role = user_role,
                     !.pc = IF user_role = AttributeError THEN "crashed" ELSE "sidebar"]
    /\ UNCHANGED <<rolesFile, docs, tribalVars, partsVars, mt, html, ptab>>

\* lines 322-349: show_leaderboard() loads points.json; the report button
\* runs generate_html_report(), which loads ideas.json
Sidebar ==
    /\ run.pc = "sidebar"
    /\ LET pts == load_json("points.json")
           report == run.event.type = "report"
           seen == DictSet(run.loaded, "points.json", pts)
       IN  run' = [run EXCEPT
                     !.loaded = IF report
                                THEN DictSet(seen, "ideas.json", load_json("ideas.json"))
                                ELSE seen,
                     !.msgs = @ \cup (IF DOMAIN pts.val = {} THEN {NoPointsYet} ELSE {})
                                \cup (IF report THEN {ReportGenerated} ELSE {}),
                     !.pc = "dispatch"]
    /\ UNCHANGED <<rolesFile, docs, tribalVars, partsVars, mt, html, ptab>>

PagesOf_GuestSubmits(user_role) ==
    CASE user_role = "admin" -> <<"submitter", "reviewer", "trainer">>
      [] user_role \in {"submitter", "reviewer", "trainer"} -> <<user_role>>
      [] user_role = "None" -> <<>>
      [] OTHER -> <<"submitter">>

\* lines 357-373: the pages main() runs for a role, in order
PagesOf(user_role) ==
    CASE user_role = "admin" -> <<"submitter", "reviewer", "trainer">>
      [] user_role \in {"submitter", "reviewer", "trainer"} -> <<user_role>>
      [] OTHER -> <<>>

\* lines 352-355 and 374-375: the st.error shown instead of a page
DenialOf(user_role) ==
    IF user_role = "None" THEN {AccessDenied}
    ELSE IF user_role \notin {"admin", "submitter", "reviewer", "trainer"}
         THEN {UnknownRole} ELSE {}

\* lines 351-375: main content based on role
Dispatch ==
    /\ run.pc = "dispatch"
    /\ run' = [run EXCEPT
                 !.pages = PagesOf(run.role),
                 !.msgs = @ \cup DenialOf(run.role),
                 !.pc = IF PagesOf(run.role) = <<>> THEN "done" ELSE "page"]
    /\ UNCHANGED <<rolesFile, docs, tribalVars, partsVars, mt, html, ptab>>

\* a page function returns: main() goes on to the next page, or ends
NextPage(r) ==
    [r EXCEPT !.pages = Tail(@), !.pc = IF Len(r.pages) = 1 THEN "done" ELSE "page"]

\* st.rerun() after a save: the script run ends here
Rerun(r, did) == [r EXCEPT !.pages = <<>>, !.pc = "done", !.did = did]

\* lines 70-77 and 94-95: the st.error of a rejected submission
SubmitError(f) ==
    IF Strip(f.idea_text) = <<>> THEN TextError
    ELSE IF f.selected_tag = CustomTag /\ Strip(FormTag(f)) = <<>> THEN CustomTagError
         ELSE SelectTagError

\* lines 50-95: submitter_page()
RunSubmitPage ==
    /\ run.pc = "page" /\ Head(run.pages) = "submitter"
    /\ LET f == run.event.form
           loaded == load_json("ideas.json")
       IN  IF run.event.type = "submit" /\ FormValid(f)
           THEN /\ ideasFile' = Append(loaded.val, NewIdea(loaded.val, f, run.user, now))
                /\ docs' = [docs EXCEPT !["ideas.json"] = Ok]
                /\ run' = [Rerun(run, "submit") EXCEPT
                              !.loaded = DictSet(@, "ideas.json", loaded),
                              !.msgs = @ \cup {SubmitSuccess}]
           ELSE /\ run' = [NextPage(run) EXCEPT
                              !.msgs = @ \cup (IF run.event.type = "submit"
                                               THEN {SubmitError(f)} ELSE {})]
                /\ UNCHANGED <<ideasFile, docs>>
    /\ UNCHANGED <<rolesFile, pointsFile, now, pc, ideas, points>>
    /\ UNCHANGED <<partsVars, mt, html, ptab>>

\* lines 97-173: reviewer_page()
RunReviewPage ==
    /\ run.pc = "page" /\ Head(run.pages) = "reviewer"
    /\ LET loaded == load_json("ideas.json")
           pts == load_json("points.json")
           e == run.event
           seen == DictSet(DictSet(run.loaded, "ideas.json", loaded), "points.json", pts)
       IN  IF /\ e.type = "review"
              /\ e.k \in 1..Len(loaded.val)
              /\ ReviewOffered(loaded.val[e.k], run.user)
           THEN /\ ideasFile' = AddReview(loaded.val, e.k, run.user, e.accurate, now)
                /\ pointsFile' = AwardedPoints(pts.val, run.user, e.accurate)
                /\ docs' = [docs EXCEPT !["ideas.json"] = Ok, !["points.json"] = Ok]
                /\ run' = [Rerun(run, "review") EXCEPT !.loaded = seen]
           ELSE /\ run' = [NextPage(run) EXCEPT
                              !.loaded = seen,
                              !.msgs = @ \cup (IF loaded.val = <<>> THEN {NoIdeasFound}
                                               ELSE {})]
                /\ UNCHANGED <<ideasFile, pointsFile, docs>>
    /\ UNCHANGED <<rolesFile, now, pc, ideas, points>>
    /\ UNCHANGED <<partsVars, mt, html, ptab>>

\* lines 175-217: trainer_page()
RunTrainPage ==
    /\ run.pc = "page" /\ Head(run.pages) = "trainer"
    /\ LET loaded == load_json("ideas.json")
           e == run.event
           seen == DictSet(run.loaded, "ideas.json", loaded)
       IN  IF /\ e.type = "train"
              /\ e.k \in 1..Len(loaded.val)
              /\ TrainOffered(loaded.val[e.k])
           THEN /\ ideasFile' = MarkTrained(loaded.val, loaded.val[e.k].id, run.user, now)
                /\ docs' = [docs EXCEPT !["ideas.json"] = Ok]
                /\ run' = [Rerun(run, "train") EXCEPT !.loaded = seen]
           ELSE /\ run' = [NextPage(run) EXCEPT
                              !.loaded = seen,
                              !.msgs = @ \cup (IF \A i \in DOMAIN loaded.val :
                                                     ~TrainOffered(loaded.val[i])
                                               THEN {AllTrained} ELSE {})]
                /\ UNCHANGED <<ideasFile, docs>>
    /\ UNCHANGED <<rolesFile, pointsFile, now, pc, ideas, points>>
    /\ UNCHANGED <<partsVars, mt, html, ptab>>

\* the Parts tracker's script run and the Tribal Ideas script runs
NextRun ==
    \/ LoadParts
    \/ Initialize
    \/ RoleLookup
    \/ Sidebar
    \/ Dispatch
    \/ RunSubmitPage
    \/ RunReviewPage
    \/ RunTrainPage

\* the documents in any condition; ideas.json, when it parses, empty or
\* holding one idea of michael's; parts.json, when it parses, empty or the
\* example store
InitRun ==
    /\ docs \in [DocNames -> {Missing, Corrupt, Ok}]
    /\ rolesFile = IF docs["roles.json"] = Ok THEN RunRoles ELSE NoRoles
    /\ ideasFile \in IF docs["ideas.json"] = Ok
                      THEN {NoIdeas, <<SampleIdea(1, <<>>, Absent)>>} ELSE {NoIdeas}
    /\ pointsFile = NoPoints
    /\ partsFile \in IF docs["parts.json"] = Ok THEN {NoParts, ExampleStore} ELSE {NoParts}
    /\ \E u \in RunUsers : run = IdleRun(u)
    /\ now = 1
    /\ pc = [s \in Sessions |-> "idle"]
    /\ ideas = [s \in Sessions |-> NoIdeas]
    /\ points = [s \in Sessions |-> NoPoints]
    /\ ppc = "start"
    /\ parts_data = NoParts
    /\ lines = <<>>
    /\ li = 1
    /\ counts = NoCounts

\* no script run of main() is under way; every document exists and parses
InitRunIdle ==
    /\ rolesFile = RolesTable
    /\ docs = AllOk
    /\ run = IdleRun("carol")

(***************************************************************************)
(* Properties of the script runs (SpecRun)                                 *)
(***************************************************************************)
\* empty or whitespace only
IsBlank(str) == \A k \in 1..Len(str) : str[k] \in Whitespace

\* the step is submitter_page() handling the submit button of the form
SubmitStep ==
    /\ run.pc = "page"
    /\ Head(run.pages) = "submitter"
    /\ run.event.type = "submit"
    /\ run' # run

\* the id the next accepted submission gets
NextId == Len(load_json("ideas.json").val) + 1

\* C12: submit fails when the text is blank, or when Custom... is chosen
\* and the custom tag is blank: an error message is shown, no idea is
\* stored, ideas.json and points.json are unchanged and the next id is the
\* same as before.
C12_BlankSubmitRejected ==
    [][SubmitStep
        /\ (\/ IsBlank(run.event.form.idea_text)
            \/ run.event.form.selected_tag = CustomTag /\ IsBlank(run.event.form.custom))
          => /\ ideasFile' = ideasFile
             /\ pointsFile' = pointsFile
             /\ docs' = docs
             /\ run'.did = "none"
             /\ SubmitSuccess \notin run'.msgs
             /\ run'.msgs \cap {TextError, CustomTagError} # {}
             /\ NextId' = NextId
      ]_vars

\* a form with a text and a whitespace-only custom tag was rejected while
\* ideas.json held an idea
C12_Witness ==
    /\ run.event.type = "submit"
    /\ run.event.form.idea_text = <<"t">>
    /\ run.event.form.selected_tag = CustomTag
    /\ run.event.form.custom = <<SP>>
    /\ CustomTagError \in run.msgs
    /\ run.did = "none"
    /\ docs["ideas.json"] = Ok /\ Len(ideasFile) = 1

\* the shape of a document's collection: a sequence for ideas, a mapping
\* for points and roles
OwnKind(n) == IF n = "ideas.json" THEN "list" ELSE "dict"

\* the collection a document holds
Persisted(n) ==
    CASE n = "ideas.json" -> ideasFile
      [] n = "points.json" -> pointsFile
      [] n = "roles.json" -> rolesFile

\* the step is the first load of document n in this script run
Loads(n) == n \in DOMAIN run'.loaded /\ n \notin DOMAIN run.loaded

\* C14 as stated: every load returns the persisted collection, or, when the
\* document is absent or does not parse, an empty collection of the
\* document's own shape (an empty mapping for parts, points and roles, an
\* empty sequence for ideas).
C14_Original ==
    [][/\ \A n \in TribalDocs :
            Loads(n)
              => /\ run'.loaded[n].kind = OwnKind(n)
                 /\ docs[n] = Ok => run'.loaded[n].val = Persisted(n)
                 /\ docs[n] # Ok => DOMAIN run'.loaded[n].val = {}
       /\ ppc = "start" /\ ppc' = "loaded"
            => parts_data' = IF docs["parts.json"] = Ok THEN partsFile ELSE NoParts
      ]_vars

\* C15 as stated: whatever the condition of the documents, no script run
\* ends in an unhandled error.
C15_Original == run.pc # "crashed"

\* the step is load_parts() at the start of the Parts tracker's script run
LoadsParts == ppc = "start" /\ ppc' = "loaded"

\* load_parts() on a parts.json that does not exist returns {} and leaves
\* a parts.json holding {}, which the next load returns
MissingPartsCreated ==
    LoadsParts /\ docs["parts.json"] = Missing
      => /\ parts_data' = NoParts
         /\ docs'["parts.json"] = Ok
         /\ partsFile' = NoParts
         /\ load_parts' = NoParts

\* the collection a missing document is created with is empty(n)
CreatedWith(empty(_)) ==
    /\ MissingPartsCreated
    /\ \A n \in TribalDocs :
         /\ run.pc \in {"idle", "done", "crashed"} /\ run'.pc = "lookup"
              => IF docs[n] = Missing
                 THEN docs'[n] = Ok /\ Persisted(n)' = empty(n)
                 ELSE docs'[n] = docs[n] /\ Persisted(n)' = Persisted(n)
         /\ Loads(n) /\ n \in run.created
              => /\ docs[n] = Ok
                 /\ Persisted(n) = empty(n)
                 /\ run'.loaded[n] = [kind |-> OwnKind(n), val |-> empty(n)]
                 /\ run'.pc # "crashed"

EmptyCollection(n) == <<>>

InitialCollection(n) == IF n = "roles.json" THEN DefaultRoles ELSE <<>>

TableRole ==
    IF docs["roles.json"] = Ok /\ run.user \in DOMAIN rolesFile
    THEN rolesFile[run.user] ELSE "None"

\* the step is a page of a script run writing a document of the ideas
\* application
PageWrites ==
    /\ run.pc = "page"
    /\ \/ ideasFile' # ideasFile
       \/ pointsFile' # pointsFile
       \/ \E n \in TribalDocs : docs'[n] # docs[n]

RolesWritten ==
    rolesFile' # rolesFile \/ docs'["roles.json"] # docs["roles.json"]

MaxFieldLen == 2

\* a letter, the three characters both exports' markup is made of, and the
\* line separator
ExportAlphabet == {"a", "<", "&", ">", NL}
FieldTexts == SeqsUpTo(ExportAlphabet, MaxFieldLen)

PartsFields == {"parent", "issues", "usage"}
IdeasFields == {"tag", "text", "link", "submitter"}

Amp == <<"&", "a", "m", "p", ";">>
Lt == <<"&", "l", "t", ";">>
Gt == <<"&", "g", "t", ";">>
Br == <<"<", "b", "r", ">">>

\* str.replace(old, new), for a one-character `old`
RECURSIVE Replace(_, _, _)
Replace(str, old, new) ==
    IF str = <<>> THEN <<>>
    ELSE (IF Head(str) = old THEN new ELSE <<Head(str)>>) \o Replace(Tail(str), old, new)

\* .replace('&', '&amp;').replace('<', '&lt;').replace('>', '&gt;')
EscapeParts(value) == Replace(Replace(Replace(value, "&", Amp), "<", Lt), ">", Gt)

\* Parts_link.py 361-363: parent is escaped; issues and usage are escaped
\* and then .replace('\n', '<br>')
PartsCell(field, value) ==
    IF field = "parent" THEN EscapeParts(value)
    ELSE Replace(EscapeParts(value), NL, Br)

\* tribal.py 267-276: {idea['tag']}, {idea['text']}, {idea["link"]} (in the
\* href of link_text) and {idea['submitter']} are interpolated as stored
IdeasCell(field, value) == value

NoExport == [app |-> "none", field |-> "none", value |-> <<>>, cell |-> <<>>]

InitExportIdle == html = NoExport

InitExport == html \in {[NoExport EXCEPT !.value = v] : v \in FieldTexts}

\* Parts_link.py 359-371: a row of the Parts export is written
ExportParts ==
    /\ html.app = "none"
    /\ \E field \in PartsFields :
         html' = [html EXCEPT !.app = "parts", !.field = field,
                              !.cell = PartsCell(field, html.value)]
    /\ UNCHANGED <<partsVars, tribalVars, mt, runVars, ptab>>

\* tribal.py 258-280: a row of the Ideas report is written
ExportIdeas ==
    /\ html.app = "none"
    /\ \E field \in IdeasFields :
         html' = [html EXCEPT !.app = "ideas", !.field = field,
                              !.cell = IdeasCell(field, html.value)]
    /\ UNCHANGED <<partsVars, tribalVars, mt, runVars, ptab>>

NextExport ==
    \/ ExportParts
    \/ ExportIdeas

\* the word w stands in cell at position i
StartsAt(cell, i, w) ==
    i + Len(w) - 1 <= Len(cell) /\ SubSeq(cell, i, i + Len(w) - 1) = w

\* position i of cell holds a literal `<` or `&`: a `<` that is not the
\* start of the <br> written for a line separator, or a `&` that is not
\* the start of an entity
Literal(cell, i) ==
    \/ cell[i] = "<" /\ ~StartsAt(cell, i, Br)
    \/ cell[i] = "&" /\ ~\E e \in {Amp, Lt, Gt} : StartsAt(cell, i, e)

Count(str, c) == Cardinality({i \in 1..Len(str) : str[i] = c})
Occurrences(cell, w) == Cardinality({i \in 1..Len(cell) : StartsAt(cell, i, w)})

\* C17: in both exports, every `<` and `&` of a record's free-text field
\* is written in escaped form, one &lt; per `<` and one &amp; per `&`, and
\* the text written for the field holds no literal `<` or `&`.
C17_Original ==
    html.app # "none"
      => /\ \A i \in 1..Len(html.cell) : ~Literal(html.cell, i)
         /\ Occurrences(html.cell, Lt) = Count(html.value, "<")
         /\ Occurrences(html.cell, Amp) = Count(html.value, "&")

(***************************************************************************)
(* Parts tracker: sessions sharing parts.json (src/Parts_link.py)          *)
(***************************************************************************)
PSess == {1, 2}

\* what is typed in the sidebar's "Enter New Part Number"
SidebarInputs == {<<"a">>, <<"B", SP>>}

\* lines 87-88 and 101: st.session_state.selected_part = part_input.strip();
\* part_number = st.session_state.selected_part.upper()
PartNumberOf(part_input) == Upper(Strip(part_input))

\* the part numbers looked up, the texts pasted in the import area
\* ("a\tb", "B\t\ta", and nothing) and the issues typed in the form
RacePartNumbers == {PartNumberOf(part_input) : part_input \in SidebarInputs}
RaceTexts == {<<"a", TAB, "b">>, <<"B", TAB, TAB, "a">>, <<>>}
RaceIssues == {<<"a">>}

NoCopy == [pc |-> "idle", parts_data |-> NoParts]

InitRaceIdle == ptab = [s \in PSess |-> NoCopy]

AddedPart_Alone(pd, part_number) ==
    [x \in {part_number} |-> [parent |-> <<>>, issues |-> <<>>, usage |-> <<>>]]

\* lines 200-204: parts_data[part_number] = {'parent': '', 'issues': '', 'usage': ''}
AddedPart(pd, part_number) ==
    DictSet(pd, part_number, [parent |-> <<>>, issues |-> <<>>, usage |-> <<>>])

\* lines 152-156: parts_data[part_number] = {parent, issues, usage} of the form
EditedPart(pd, part_number, parent, issues, usage) ==
    DictSet(pd, part_number, [parent |-> parent, issues |-> issues, usage |-> usage])

\* lines 229-261: `for line in lines`
RECURSIVE ImportLines(_, _, _)
ImportLines(pd, c, ls) ==
    IF ls = <<>> THEN pd
    ELSE LET r == ImportLineOp(pd, c, Head(ls))
         IN  ImportLines(r.pd, r.c, Tail(ls))

\* lines 224-261: the collection the Import Parts handler saves
ImportedParts(pd, import_text) ==
    ImportLines(pd, NoCounts, Split(Strip(import_text), NL))

\* line 36, at the start of a script run: parts_data = load_parts()
SessionLoad(s) ==
    /\ ptab[s].pc = "idle"
    /\ ptab' = [ptab EXCEPT ![s] = [pc |-> "loaded", parts_data |-> load_parts]]
    /\ partsFile' = PartsDocAfterLoad.val
    /\ docs' = [docs EXCEPT !["parts.json"] = PartsDocAfterLoad.state]
    /\ UNCHANGED <<ppc, parts_data, lines, li, counts>>
    /\ UNCHANGED <<tribalVars, mt, rolesFile, run, html>>

SaveAndRerun_Merge(s, pd) ==
    /\ partsFile' = [x \in DOMAIN partsFile \cup DOMAIN pd |->
                        IF x \in DOMAIN pd THEN pd[x] ELSE partsFile[x]]
    /\ docs' = [docs EXCEPT !["parts.json"] = Ok]
    /\ ptab' = [ptab EXCEPT ![s] = NoCopy]
    /\ UNCHANGED <<ppc, parts_data, lines, li, counts>>
    /\ UNCHANGED <<tribalVars, mt, rolesFile, run, html>>

\* lines 25-28 and st.rerun(): the copy is written over parts.json and the
\* script run ends
SaveAndRerun(s, pd) ==
    /\ partsFile' = pd
    /\ docs' = [docs EXCEPT !["parts.json"] = Ok]
    /\ ptab' = [ptab EXCEPT ![s] = NoCopy]
    /\ UNCHANGED <<ppc, parts_data, lines, li, counts>>
    /\ UNCHANGED <<tribalVars, mt, rolesFile, run, html>>

\* lines 196-207: the part entered is not in parts_data, and "Add Part" is
\* clicked
AddPartClick(s) ==
    /\ ptab[s].pc = "loaded"
    /\ \E part_input \in SidebarInputs :
         LET part_number == PartNumberOf(part_input)
         IN  /\ part_number \notin DOMAIN ptab[s].parts_data
             /\ SaveAndRerun(s, AddedPart(ptab[s].parts_data, part_number))

\* lines 104-160: the part selected is in parts_data, the form is in edit
\* mode, and "Save Changes" is clicked
SaveChangesClick(s) ==
    /\ ptab[s].pc = "loaded"
    /\ LET pd == ptab[s].parts_data
       IN  \E part_number \in DOMAIN pd :
             \E parent \in {<<>>} \cup DOMAIN pd :
               \E issues \in {pd[part_number].issues} \cup RaceIssues :
                 SaveAndRerun(s, EditedPart(pd, part_number, parent, issues,
                                            pd[part_number].usage))

\* lines 222-276: "Import Parts" is clicked; a blank text area saves
\* nothing, and the script run ends
ImportPartsClick(s) ==
    /\ ptab[s].pc = "loaded"
    /\ \E import_text \in RaceTexts :
         IF Strip(import_text) # <<>>
         THEN SaveAndRerun(s, ImportedParts(ptab[s].parts_data, import_text))
         ELSE /\ ptab' = [ptab EXCEPT ![s] = NoCopy]
              /\ UNCHANGED <<partsVars, tribalVars, mt, runVars, html>>

NextRace ==
    \E s \in PSess :
        \/ SessionLoad(s)
        \/ AddPartClick(s)
        \/ SaveChangesClick(s)
        \/ ImportPartsClick(s)

\* session s ends a handler in this step
HandlerOf(s) == ptab[s].pc = "loaded" /\ ptab'[s].pc = "idle"

\* C20 as stated: a part number that is a key of parts.json is a key of
\* parts.json after every step of every session.
C20_Original == [][DOMAIN partsFile \subseteq DOMAIN partsFile']_vars

\* C20, amended: a handler's save keeps every key of the copy the handler
\* loaded at the start of its run, so a key of parts.json is kept by every
\* handler that loaded it; a load, and a handler that saves nothing, leave
\* parts.json as it is; the keys a save drops are keys another session
\* saved after the handler's load.
C20_SaveKeepsLoadedKeys ==
    [][\A s \in PSess :
          /\ HandlerOf(s)
               => /\ \/ partsFile' = partsFile
                     \/ DOMAIN ptab[s].parts_data \subseteq DOMAIN partsFile'
                  /\ DOMAIN partsFile \ DOMAIN partsFile'
                       \subseteq DOMAIN partsFile \ DOMAIN ptab[s].parts_data
          /\ ptab[s].pc = "idle" /\ ptab'[s].pc = "loaded"
               => /\ partsFile' = partsFile
                  /\ ptab'[s].parts_data = partsFile
      ]_vars

\* a session holds a loaded copy with a part number that parts.json no
\* longer has: the other session's save, of a copy loaded earlier, dropped
\* it, and that save kept the keys of its own copy
C20_Witness ==
    \E s \in PSess :
        /\ ptab[s].pc = "loaded"
        /\ \E k \in DOMAIN ptab[s].parts_data : k \notin DOMAIN partsFile
        /\ DOMAIN partsFile # {}

(***************************************************************************)
(* Properties of the ideas collection across saves (Spec)                  *)
(***************************************************************************)
IsPrefix(a, b) == Len(a) <= Len(b) /\ SubSeq(b, 1, Len(a)) = a

\* idea b is idea a as submitted, with a's reviews kept in front of b's
SameSubmission(a, b) ==
    /\ b.id = a.id /\ b.text = a.text /\ b.link = a.link /\ b.tag = a.tag
    /\ b.submitter = a.submitter /\ b.submitted_at = a.submitted_at
    /\ IsPrefix(a.reviews, b.reviews)

\* every idea of list a is in list b, as submitted and with its reviews
KeepsIdeas(a, b) ==
    \A i \in DOMAIN a : \E j \in DOMAIN b : SameSubmission(a[i], b[j])

\* session s saves ideas.json in this step
SavesIdeas(s) ==
    pc[s] \in {"submit", "review", "train"} /\ pc'[s] # pc[s] /\ ideasFile' # ideasFile

\* C21 as stated: across every step, every persisted idea is persisted
\* after it with the same id, text, link, tag, submitter and submitted_at,
\* and with its reviews as a prefix of its reviews after the step.
C21_Original == [][KeepsIdeas(ideasFile, ideasFile')]_vars

\* C21 (amended): every save of ideas.json by a submit, review or
\* mark_trained handler holds every idea of the copy the handler loaded,
\* as submitted and with its reviews as a prefix of the saved reviews; so
\* the persisted ideas and reviews are kept by every save of a handler
\* whose loaded copy is still the persisted one, and ideas.json changes by
\* such saves only.
C21_HandlerKeepsIdeas ==
    [][/\ ideasFile' # ideasFile => \E s \in Tabs : SavesIdeas(s)
       /\ \A s \in Tabs :
            SavesIdeas(s)
              => /\ KeepsIdeas(ideas[s], ideasFile')
                 /\ ideas[s] = ideasFile => KeepsIdeas(ideasFile, ideasFile')
      ]_vars

\* idea 1 was reviewed and then marked trained, idea 2 submitted after it:
\* it is stored as submitted, its review in place
C21_Witness ==
    /\ \A s \in Tabs : pc[s] = "idle"
    /\ Len(ideasFile) = 2
    /\ ideasFile[1].trained
    /\ Len(ideasFile[1].reviews) = 1
    /\ ideasFile[1].id = 1 /\ ideasFile[1].text = <<"t">> /\ ideasFile[1].submitter = "carol"

(***************************************************************************)
(* One server process per application: sessions of the ideas application   *)
(* or sessions of the Parts tracker (`streamlit run` of one script)        *)
(***************************************************************************)
Off == "off"

\* ideas.json and points.json after michael submitted an idea and alice
\* reviewed it, each from a server process of their own
ReviewedIdeas ==
    <<SampleIdea(1, <<[reviewer |-> "alice", accurate |-> TRUE, reviewed_at |-> 1]>>, Absent)>>
ReviewedPoints == [u \in {"alice"} |-> 5]

\* the ideas application is served, the Parts tracker is not; the
\* documents are empty, or hold michael's idea with alice's review
InitServeTribal ==
    /\ \/ ideasFile = NoIdeas /\ pointsFile = NoPoints
       \/ ideasFile = ReviewedIdeas /\ pointsFile = ReviewedPoints
    /\ now = 1
    /\ pc = [s \in Sessions |-> "idle"]
    /\ ideas = [s \in Sessions |-> NoIdeas]
    /\ points = [s \in Sessions |-> NoPoints]
    /\ ptab = [s \in PSess |-> [NoCopy EXCEPT !.pc = Off]]

\* the Parts tracker is served, the ideas application is not
InitServeParts ==
    /\ ideasFile = NoIdeas
    /\ pointsFile = NoPoints
    /\ now = 1
    /\ pc = [s \in Sessions |-> Off]
    /\ ideas = [s \in Sessions |-> NoIdeas]
    /\ points = [s \in Sessions |-> NoPoints]
    /\ InitRaceIdle

NextServe ==
    \/ NextTribal
    \/ NextRace

\* list b is list a but for the idea at position k
SameListBut(a, b, k) ==
    Len(b) = Len(a) /\ \A j \in DOMAIN a : j # k => b[j] = a[j]

\* store b is store a but for the part k
SameStoreBut(a, b, k) ==
    \A x \in (DOMAIN a \cup DOMAIN b) \ {k} :
        x \in DOMAIN a /\ x \in DOMAIN b /\ b[x] = a[x]

\* C22: last write wins. The document a handler saves is the copy the
\* handler loaded with the handler's own change and nothing else, whatever
\* another session saved since the load: ideas.json is the loaded list
\* with one idea appended (submit), one review appended to one idea
\* (review) or one idea stamped (mark_trained); points.json is the loaded
\* ledger with the award added; parts.json is the loaded store but for one
\* part. What the other session saved in between is absent unless the
\* loaded copy held it, and the save is enabled and ends the run as usual,
\* with no error position, also when the copy is stale.
C22_LastWriteWins ==
    /\ [][\A s \in Tabs :
            /\ Moves(s, "submit", "idle")
                 => /\ Len(ideasFile') = Len(ideas[s]) + 1
                    /\ SubSeq(ideasFile', 1, Len(ideas[s])) = ideas[s]
            /\ Moves(s, "review", "save_points")
                 => /\ ideasFile' = ideas'[s]
                    /\ \E k \in DOMAIN ideas[s] :
                         /\ SameListBut(ideas[s], ideasFile', k)
                         /\ ideasFile'[k] =
                              [ideas[s][k] EXCEPT !.reviews =
                                  Append(@, ideasFile'[k].reviews[Len(ideasFile'[k].reviews)])]
            /\ Moves(s, "save_points", "idle") => pointsFile' = points[s]
            /\ Moves(s, "train", "idle") /\ ideasFile' # ideasFile
                 => \E k \in DOMAIN ideas[s] :
                       /\ SameListBut(ideas[s], ideasFile', k)
                       /\ ideasFile'[k] =
                            [ideas[s][k] EXCEPT !.trained = TRUE,
                                                !.trained_by = ideasFile'[k].trained_by,
                                                !.trained_at = ideasFile'[k].trained_at]
         ]_vars
    /\ [][\A s \in PSess :
            HandlerOf(s) /\ partsFile' # partsFile
              => /\ \E k \in DOMAIN partsFile' :
                      SameStoreBut(ptab[s].parts_data, partsFile', k)
                 /\ Cardinality(DOMAIN partsFile' \ DOMAIN ptab[s].parts_data) <= 1
         ]_vars
    /\ [](\A s \in Tabs :
            /\ pc[s] = "submit" => ENABLED SubmitSave(s)
            /\ pc[s] = "save_points" => ENABLED ReviewSavePoints(s))
    /\ [](\A s \in PSess :
            ptab[s].pc = "loaded" /\ RacePartNumbers \ DOMAIN ptab[s].parts_data # {}
              => ENABLED AddPartClick(s))

\* session 1 reviewed an idea and saved both documents; session 2, which
\* had loaded both documents before, then saved its own review: ideas.json
\* holds one review, session 2's, while points.json still holds the 5
\* points of session 1's review and is about to be overwritten with 5
C22_Witness ==
    /\ pc[1] = "idle" /\ pc[2] = "save_points"
    /\ PointsGet(pointsFile, "carol") = 5
    /\ PointsGet(points[2], "carol") = 5
    /\ Len(ideasFile) = 2
    /\ ideasFile = ideas[2]
    /\ Len(ideasFile[1].reviews) + Len(ideasFile[2].reviews) = 1

(***************************************************************************)
(* The import handler's save (SpecImport)                                  *)
(***************************************************************************)
\* C23: the whole import is a single save at the end. No iteration of the
\* loop writes parts.json; the one write of a run on a non-blank text is
\* the step that leaves the handler, taken after the last line, and it
\* writes the collection that results from processing every line of the
\* block over the loaded collection; a run on a blank text writes nothing;
\* nothing is written after that step. So parts.json never holds the
\* result of a proper prefix of the lines.
C23_SingleSaveAtEnd ==
    /\ [][/\ ppc = "import" /\ ppc' = "import"
               => partsFile' = partsFile /\ li' = li + 1 /\ li <= Len(lines)
          /\ ppc = "import" /\ ppc' # "import"
               => /\ ppc' = "done"
                  /\ li = Len(lines) + 1
                  /\ partsFile' = ImportLines(partsFile, NoCounts, lines)
                  /\ partsFile' = parts_data
          /\ ppc = "loaded" /\ ppc' # "loaded"
               => /\ partsFile' = partsFile
                  /\ ppc' \in {"import", "done"}
          /\ ppc = "done" => ppc' = "done" /\ partsFile' = partsFile
          /\ partsFile' # partsFile => ppc = "import" /\ ppc' = "done"
         ]_vars
    /\ [](ppc = "import" /\ li > Len(lines) => ENABLED ImportSave)
    /\ [](ppc = "import" => li \in 1..(Len(lines) + 1) /\ lines # <<>>)

\* a block of two lines was imported: the first added the part, the second
\* updated it, and parts.json holds the outcome of both
C23_Witness ==
    /\ ppc = "done"
    /\ Len(lines) = 2 /\ li = 3
    /\ counts.imported = 1 /\ counts.updated = 1
    /\ partsFile = parts_data
    /\ KeyOf(lines[1]) \in DOMAIN partsFile

(***************************************************************************)
(* Trained ideas and reviews (Spec)                                        *)
(***************************************************************************)
\* the review handler of session s appends, in this step, a review to the
\* idea at position k of the list it loaded
ReviewsIdea(s, k) ==
    /\ Moves(s, "review", "save_points")
    /\ k \in DOMAIN ideas[s]
    /\ Len(ideas'[s][k].reviews) = Len(ideas[s][k].reviews) + 1

\* C24: trained is terminal: no review is accepted for an idea that is
\* trained (the review handler never appends a review to an idea that is
\* trained in the list it loaded), and the reviews of a persisted idea
\* that is trained are the same after every step.
C24_Original ==
    [][/\ \A s \in Tabs : \A k \in 1..MaxIdeas :
            ReviewsIdea(s, k) => ~ideas[s][k].trained
       /\ \A i \in DOMAIN ideasFile :
            ideasFile[i].trained
              => i \in DOMAIN ideasFile' /\ ideasFile'[i].reviews = ideasFile[i].reviews
      ]_vars

(***************************************************************************)
(* The keys of the Parts collection (SpecRace)                             *)
(***************************************************************************)
\* the stores of the Parts tracker: parts.json and every session's copy
PartsStores == {partsFile} \cup {ptab[s].parts_data : s \in PSess}

\* C25: part numbers are uppercase-normalized and case-insensitive-unique:
\* starting from an empty collection, every key of parts.json, and of every
\* copy a handler holds, equals its own uppercased form, so no two
\* distinct keys are equal when compared case-insensitively.
C25_KeysUppercase ==
    \A pd \in PartsStores :
        /\ \A k \in DOMAIN pd : Upper(k) = k
        /\ \A j, k \in DOMAIN pd : Upper(j) = Upper(k) => j = k

\* "a" was imported with parent "b" and "B " was looked up and
\* added: the keys are "A" and "B", and the parent is "B"
C25_Witness ==
    /\ DOMAIN partsFile = {<<"A">>, <<"B">>}
    /\ partsFile[<<"A">>].parent = <<"B">>
    /\ partsFile[<<"B">>].issues = <<>>

(***************************************************************************)
(* Empty part numbers (SpecImport)                                         *)
(***************************************************************************)
\* C26: every key of the Parts collection is a non-empty string: from a
\* collection without an empty key, no import (a line whose first field is
\* empty or only whitespace included) leaves a record whose part number is
\* the empty string, in the handler's copy or in parts.json.
C26_Original ==
    /\ \A k \in DOMAIN parts_data : k # <<>>
    /\ \A k \in DOMAIN partsFile : k # <<>>

(***************************************************************************)
(* The ledger and the reviews (Spec)                                       *)
(***************************************************************************)
\* the number of Review entries of identity u in a list of ideas
ReviewCount(ids, u) ==
    Cardinality(UNION {{<<i, k>> : k \in {j \in DOMAIN ids[i].reviews :
                                              ids[i].reviews[j].reviewer = u}} :
                       i \in DOMAIN ids})

Identities == {SessionUsers[s] : s \in Sessions}

\* every total of ledger p is 5 times the identity's reviews in ids
LedgerMatches(ids, p) ==
    /\ DOMAIN p \subseteq Identities
    /\ \A u \in Identities : PointsGet(p, u) = 5 * ReviewCount(ids, u)

\* C27 as stated: whenever no handler is running, every identity's total
\* in points.json is 5 times the number of its reviews in ideas.json.
C27_Original ==
    (\A s \in Tabs : pc[s] = "idle") => LedgerMatches(ideasFile, pointsFile)

\* C27 (amended): a review handler adds one review of the acting identity
\* to the list it loaded and 5 to that identity's total in the ledger it
\* loaded, and saves the list and then the ledger; submit and mark_trained
\* save the loaded list with the same reviews and do not write the ledger.
\* So a handler whose loaded copies are the persisted documents takes a
\* matching pair of documents to a matching pair (between the two saves
\* of a review the persisted ledger is 5 short for the reviewer).
C27_HandlerKeepsLedgerMatch ==
    [][\A s \in Tabs :
          LET u == get_current_user(s)
          IN  /\ Moves(s, "review", "save_points")
                   => /\ \A v \in Identities :
                           ReviewCount(ideasFile', v) =
                              ReviewCount(ideas[s], v) + (IF v = u THEN 1 ELSE 0)
                      /\ points'[s] = DictSet(points[s], u, PointsGet(points[s], u) + 5)
                      /\ LedgerMatches(ideas[s], points[s])
                           => LedgerMatches(ideasFile', points'[s])
                      /\ pointsFile' = pointsFile
              /\ Moves(s, "save_points", "idle")
                   => /\ pointsFile' = points[s]
                      /\ ideasFile' = ideasFile
                      /\ LedgerMatches(ideasFile, points[s])
                           => LedgerMatches(ideasFile', pointsFile')
              /\ SavesIdeas(s) /\ pc[s] \in {"submit", "train"}
                   => /\ \A v \in Identities :
                           ReviewCount(ideasFile', v) = ReviewCount(ideas[s], v)
                      /\ pointsFile' = pointsFile
                      /\ ideas[s] = ideasFile /\ LedgerMatches(ideasFile, pointsFile)
                           => LedgerMatches(ideasFile', pointsFile')
      ]_vars

\* between the two saves of a review, the only handler running: ideas.json
\* holds the review, points.json does not hold the award yet, and the
\* ledger about to be saved matches
C27_Witness ==
    /\ pc[1] = "save_points" /\ pc[2] = "idle"
    /\ ReviewCount(ideasFile, "carol") = 1
    /\ pointsFile = NoPoints
    /\ LedgerMatches(ideasFile, points[1])
    /\ ~LedgerMatches(ideasFile, pointsFile)

(***************************************************************************)
(* Idea ids (Spec)                                                         *)
(***************************************************************************)
\* the idea at position k of the list has id k
Dense(ids) == \A k \in DOMAIN ids : ids[k].id = k

\* C28: idea ids are unique and dense: in ideas.json, and in every copy a
\* handler holds, the idea at position k has id k, with one session or
\* two; so no two ideas share an id, and a click on Mark Trained for the
\* idea at position k stamps that idea and no other.
C28_IdsDense ==
    /\ [](Dense(ideasFile) /\ \A s \in Tabs : Dense(ideas[s]))
    /\ [](\A j, k \in DOMAIN ideasFile : ideasFile[j].id = ideasFile[k].id => j = k)
    /\ [][\A s \in Tabs : \A k \in 1..MaxIdeas :
            TrainClickOn(s, k)
              => /\ ideasFile'[k].trained /\ ideasFile'[k].id = ideas[s][k].id
                 /\ SameListBut(ideas[s], ideasFile', k)
         ]_vars

\* two ideas are stored with ids 1 and 2; Mark Trained was clicked for the
\* second, and the second alone is trained
C28_Witness ==
    /\ \A s \in Tabs : pc[s] = "idle"
    /\ Len(ideasFile) = 2
    /\ ideasFile[1].id = 1 /\ ~ideasFile[1].trained
    /\ ideasFile[2].id = 2 /\ ideasFile[2].trained

(***************************************************************************)
(* The counters of the import (SpecImport)                                 *)
(***************************************************************************)
\* the lines among the first n of the block with at least 2 fields
\* separated by tabs
TwoFieldLines(n) ==
    {i \in 1..n : Contains(lines[i], TAB) /\ Len(Fields(lines[i])) >= 2}

\* C29: import counter bounds, after every line of the loop and so at its
\* end: issues-updated <= updated; added + updated <= the number of lines
\* processed that have at least 2 tab-separated fields; added is the
\* number of keys of the handler's collection that parts.json, still as it
\* was before the import, does not have. After the save the three
\* counters are those of the end of the loop, and the first two bounds
\* hold over all lines of the block.
C29_CounterBounds ==
    /\ [](ppc = "import"
            => /\ counts.issues_updated <= counts.updated
               /\ counts.imported + counts.updated <= Cardinality(TwoFieldLines(li - 1))
               /\ counts.imported = Cardinality(DOMAIN parts_data \ DOMAIN partsFile))
    /\ [](ppc = "done" /\ lines # <<>>
            => /\ counts.issues_updated <= counts.updated
               /\ counts.imported + counts.updated <= Cardinality(TwoFieldLines(Len(lines))))
    /\ [][ppc = "import" /\ ppc' = "done"
            => /\ counts' = counts
               /\ counts.imported = Cardinality(DOMAIN partsFile' \ DOMAIN partsFile)
         ]_vars

\* the block of two lines with three fields each was imported: the first
\* line added the part, the second updated its issues; 1 added, 1 updated,
\* 1 issues-updated, 2 lines with two fields or more
C29_Witness ==
    /\ ppc = "done"
    /\ Len(lines) = 2
    /\ Cardinality(TwoFieldLines(2)) = 2
    /\ counts = [imported |-> 1, updated |-> 1, issues_updated |-> 1]

(***************************************************************************)
(* The frame of the workflow actions (Spec)                                *)
(***************************************************************************)
\* ledger q is ledger p but for the entry of identity u
SameLedgerBut(p, q, u) ==
    \A v \in (DOMAIN p \cup DOMAIN q) \ {u} :
        v \in DOMAIN p /\ v \in DOMAIN q /\ q[v] = p[v]

\* C30: the frame of the workflow actions, on the documents the handler
\* loaded (the persisted ones unless another session saved since). A
\* review of idea i by r saves the list with all other ideas unchanged and
\* idea i changed in its reviews only (trained included among the fields
\* kept), leaves points.json alone in that save, and then saves the ledger
\* with every entry but r's unchanged, leaving ideas.json alone. Mark
\* trained saves the list with all other ideas unchanged and idea i
\* changed in trained, trained_by and trained_at only, and leaves
\* points.json unchanged. Submit leaves points.json unchanged.
C30_WorkflowFrame ==
    [][\A s \in Tabs :
          LET u == get_current_user(s)
          IN  /\ Moves(s, "review", "save_points")
                   => /\ \E i \in DOMAIN ideas[s] :
                           /\ SameListBut(ideas[s], ideasFile', i)
                           /\ ideasFile'[i] =
                                [ideas[s][i] EXCEPT !.reviews = ideasFile'[i].reviews]
                           /\ ideasFile'[i].reviews # ideas[s][i].reviews
                      /\ SameLedgerBut(points[s], points'[s], u)
                      /\ pointsFile' = pointsFile
                      /\ ideas[s] = ideasFile
                           => \E i \in DOMAIN ideasFile : SameListBut(ideasFile, ideasFile', i)
              /\ Moves(s, "save_points", "idle")
                   => /\ ideasFile' = ideasFile
                      /\ pointsFile' = points[s]
                      /\ SameLedgerBut(points[s], pointsFile, u)
                           => SameLedgerBut(pointsFile, pointsFile', u)
              /\ Moves(s, "train", "idle") /\ ideasFile' # ideasFile
                   => /\ \E i \in DOMAIN ideas[s] :
                           /\ SameListBut(ideas[s], ideasFile', i)
                           /\ ideasFile'[i] =
                                [ideas[s][i] EXCEPT !.trained = TRUE,
                                                    !.trained_by = u,
                                                    !.trained_at = ideasFile'[i].trained_at]
                      /\ pointsFile' = pointsFile
                      /\ ideas[s] = ideasFile
                           => \E i \in DOMAIN ideasFile : SameListBut(ideasFile, ideasFile', i)
              /\ Moves(s, "submit", "idle") => pointsFile' = pointsFile
      ]_vars

\* carol marked michael's idea trained, submitted a second idea and
\* reviewed it: idea 1 holds alice's review alone, idea 2 is untrained with
\* carol's review, and the ledger holds alice's 5 points next to carol's
C30_Witness ==
    /\ \A s \in Tabs : pc[s] = "idle"
    /\ Len(ideasFile) = 2
    /\ ideasFile[1].trained /\ ideasFile[1].submitter = "michael"
    /\ Len(ideasFile[1].reviews) = 1 /\ ideasFile[1].reviews[1].reviewer = "alice"
    /\ ~ideasFile[2].trained
    /\ Len(ideasFile[2].reviews) = 1 /\ ideasFile[2].reviews[1].reviewer = "carol"
    /\ pointsFile = [u \in {"alice", "carol"} |-> 5]

(***************************************************************************)
(* Specifications                                                          *)
(***************************************************************************)
InitPartsIdle ==
    /\ partsFile = NoParts
    /\ ppc = "start"
    /\ parts_data = NoParts
    /\ lines = <<>>
    /\ li = 1
    /\ counts = NoCounts

\* the Tribal Ideas workflow, sessions interleaved at their file accesses
Idle == InitExportIdle /\ InitRaceIdle

Init == InitPartsIdle /\ InitTribal /\ InitMarkIdle /\ InitRunIdle /\ Idle
Spec == Init /\ [][NextTribal]_vars

\* one run of the Parts import over a store and a text block
InitImport == InitParts /\ InitTribal /\ InitMarkIdle /\ InitRunIdle /\ Idle
SpecImport == InitImport /\ [][NextParts]_vars

\* mark_trained called up to twice on one list of ideas
InitMarkSpec == InitPartsIdle /\ InitTribal /\ InitMark /\ InitRunIdle /\ Idle
SpecMark == InitMarkSpec /\ [][NextMark]_vars

\* script runs of main() and of the Parts tracker over documents that may
\* be missing or corrupt
InitRunSpec == InitRun /\ InitMarkIdle /\ Idle
SpecRun == InitRunSpec /\ [][NextRun]_vars

\* the text both exports write for one field value
InitExportSpec ==
    InitPartsIdle /\ InitTribal /\ InitMarkIdle /\ InitRunIdle /\ InitExport /\ InitRaceIdle
SpecExport == InitExportSpec /\ [][NextExport]_vars

\* two Parts sessions adding, editing and importing over one parts.json
SpecRace == Init /\ [][NextRace]_vars

\* one server process: sessions of the ideas application, or sessions of
\* the Parts tracker
InitServe ==
    /\ InitPartsIdle /\ InitMarkIdle /\ InitRunIdle /\ InitExportIdle
    /\ InitServeTribal \/ InitServeParts
SpecServe == InitServe /\ [][NextServe]_vars

====
